---------------------------- MODULE Spec2Model ----------------------------
(***************************************************************************)
(* The order-submission pipeline of app/executor.py (run_once and the     *)
(* functions it calls) together with the broker wrapper of                *)
(* app/broker_alpaca.py.                                                   *)
(*                                                                         *)
(* Every call that leaves the process (a Supabase table call, an Alpaca   *)
(* call, a read of time.time()) is one step, so that a later call can    *)
(* raise after an earlier one took effect and the wall clock can advance  *)
(* between two reads.  Probabilities are integer percents (0.60 is 60),   *)
(* MAX_POSITION_PCT is a percent, money is whole dollars.                *)
(*                                                                         *)
(* A client_order_id f"{ticker}-{int(time.time())}" is the pair           *)
(* <<ticker, seconds>>: the text after the last "-" is the decimal        *)
(* integer, the text before it the ticker, so the string and the pair     *)
(* determine each other.                                                   *)
(*                                                                         *)
(* Further down: the sizing function of app/risk.py with the validation    *)
(* of app/validation.py, run_intraday of app/pipeline.py, and              *)
(* build_orders_from_signals as a function of its arguments, each under a  *)
(* specification of its own (SpecRisk, SpecPipeline, SpecBuild).           *)
(***************************************************************************)
EXTENDS Integers, Sequences, FiniteSets, TLC

(***************************************************************************)
(* Bounds of the model.                                                    *)
(***************************************************************************)
\* the wall clock int(time.time()) takes the values 0..MaxClock
MaxClock == 1
\* number of run_once invocations in a behaviour
MaxRuns == 2

(***************************************************************************)
(* Program constants.                                                      *)
(***************************************************************************)
MIN_PROB == 60
MAX_POSITION_PCT == 15
ORDER_DOLLAR_STEP == 1000
EQUITY_USD == 100000

\* Tickers in the order sort_values("ticker") gives them.
TickerOrder == <<"AAPL", "BTC-USD", "MSFT">>

\* Rows the signals table may hold: [ticker, ts, signal, prob, price].
SigAAPL == [ticker |-> "AAPL", ts |-> 1, signal |-> "long", prob |-> 75, price |-> 100]
SigAAPLOld == [ticker |-> "AAPL", ts |-> 0, signal |-> "long", prob |-> 80, price |-> 100]
SigAAPLFlat == [ticker |-> "AAPL", ts |-> 2, signal |-> "flat", prob |-> 75, price |-> 100]
SigBTC == [ticker |-> "BTC-USD", ts |-> 1, signal |-> "long", prob |-> 60, price |-> 2000]
SigMSFT == [ticker |-> "MSFT", ts |-> 1, signal |-> "long", prob |-> 55, price |-> 100]

\* The contents of the signals table the model starts from: no row; rows of
\* which none qualifies (a newer flat row, a low probability); one and two
\* qualifying rows; two long rows of one ticker.
SignalTables ==
  { {}, {SigMSFT}, {SigAAPL, SigAAPLFlat}, {SigAAPL, SigMSFT}, {SigBTC},
    {SigAAPL, SigBTC, SigMSFT}, {SigAAPLOld, SigAAPL} }

\* Position lists the broker may report: ticker -> [qty, avg_price].
\* (a function with no ticker is the empty list)
BrokerMappings ==
  { <<>>,
    [t \in {"AAPL"} |-> [qty |-> 10, avg_price |-> 100]],
    [t \in {"AAPL", "BTC-USD"} |->
       IF t = "AAPL" THEN [qty |-> 20, avg_price |-> 110]
                     ELSE [qty |-> 1, avg_price |-> 2000]] }

\* The processes that may run run_once; SeqProcs run it one call after another.
Procs == {1, 2}
SeqProcs == {1}

VARIABLES
  clock,         \* int(time.time())
  signals,       \* table "signals": a set of rows
  orders,        \* table "orders": rows in insertion order
  fills,         \* table "fills": rows in insertion order
  positions,     \* table "positions": ticker -> [qty, avg_price], keyed by ticker
  metrics,       \* table "metrics": rows in insertion order
  broker_calls,  \* api.submit_order calls the broker received, in order
  runs,          \* run_once invocations started so far
  pc,            \* per process: position in run_once
  run,           \* per process: number of its current invocation
  sig,           \* per process: run_once's sig
  existing,      \* per process: run_once's existing
  to_send,       \* per process: run_once's to_send / build_orders' orders
  results,       \* per process: place_orders' placed / run_once's results
  idx,           \* per process: position in the loop being executed
  is_open,       \* per process: the clock query's answer and what market_is_open made of it
  pos,           \* per process: sync_positions' pos
  todo,          \* per process: tickers of pos not yet upserted
  nsync,         \* per process: sync_positions calls of the invocation
  error,         \* per process: exception that ended the invocation, or "none"
  signals_df,    \* size_positions_and_apply_costs: the caller's batch, rows in order
  params,        \* size_positions_and_apply_costs: crypto_cap, target_daily_vol, fee_bps, slip_bps_base
  sized_df,      \* size_positions_and_apply_costs: the returned frame
  risk_pc,       \* size_positions_and_apply_costs: not called, called, returned, raised
  pl_pc,         \* run_intraday: position
  pl_emitted,    \* run_intraday: metric names passed to write_metrics, in order
  pl_metrics,    \* run_intraday: metric names the metrics table received, in order
  sig_rows,      \* run_intraday: the rows passed to write_signals
  pl_signals,    \* run_intraday: the rows the signals table received
  build_equity,  \* build_orders_from_signals: the argument equity_usd
  build_df,      \* build_orders_from_signals: the argument df, rows in order
  built_orders,  \* build_orders_from_signals: the returned list
  build_pc       \* build_orders_from_signals: not called, called, returned

store_vars == <<signals, orders, fills, positions, metrics, broker_calls>>
local_vars == <<pc, run, sig, existing, to_send, results, idx, is_open, pos, todo, nsync, error>>
risk_vars == <<signals_df, params, sized_df, risk_pc>>
pipeline_vars == <<pl_pc, pl_emitted, pl_metrics, sig_rows, pl_signals>>
build_vars == <<build_equity, build_df, built_orders, build_pc>>
vars == <<clock, runs, store_vars, local_vars, risk_vars, pipeline_vars, build_vars>>

(***************************************************************************)
(* Pure helpers.                                                           *)
(***************************************************************************)
Min(a, b) == IF a <= b THEN a ELSE b
Max(a, b) == IF a >= b THEN a ELSE b

RECURSIVE SeqFilter(_, _)
\* the elements of s for which keep[i] holds, in order
SeqFilter(s, keep) ==
  IF s = <<>> THEN <<>>
  ELSE LET rest == SeqFilter(Tail(s), [i \in 1..(Len(s) - 1) |-> keep[i + 1]])
       IN IF keep[1] THEN <<Head(s)>> \o rest ELSE rest

\* executor.py:17,67  f"{r.ticker}-{int(time.time())}"
client_order_id(ticker, now) == <<ticker, now>>

RECURSIVE LatestPerTicker(_, _)
\* sort_values(["ticker","ts"]).drop_duplicates("ticker", keep="last")
LatestPerTicker(table, i) ==
  IF i > Len(TickerOrder) THEN <<>>
  ELSE LET rows == {r \in table : r.ticker = TickerOrder[i]}
           last == CHOOSE r \in rows : \A q \in rows : q.ts <= r.ts
       IN (IF rows = {} THEN <<>> ELSE <<last>>) \o LatestPerTicker(table, i + 1)

RECURSIVE SortByTs(_)
\* the rows of a set, oldest first
SortByTs(rows) ==
  IF rows = {} THEN <<>>
  ELSE LET first == CHOOSE r \in rows : \A q \in rows : r.ts <= q.ts
       IN <<first>> \o SortByTs(rows \ {first})

RECURSIVE AllPerTicker(_, _)
\* sort_values(["ticker","ts"]) alone
AllPerTicker(table, i) ==
  IF i > Len(TickerOrder) THEN <<>>
  ELSE SortByTs({r \in table : r.ticker = TickerOrder[i]}) \o AllPerTicker(table, i + 1)

\* mutant: drop_duplicates("ticker", keep="last") of line 25 is missing
fetch_all_signals(table) == AllPerTicker(table, 1)

\* fetch_latest_signals: the table holds fewer rows than the limit
fetch_latest_signals(table) == LatestPerTicker(table, 1)

\* mutant: the id set is read from a table that holds nothing
get_existing_client_ids_empty(rows) == {}

\* get_existing_client_ids: the non-empty client_order_ids of the orders table
get_existing_client_ids(rows) ==
  {rows[i].client_order_id : i \in DOMAIN rows}

\* mutant: the prob >= MIN_PROB filter of line 53 is missing
Qualifying_signal_only(df) ==
  SeqFilter(df, [i \in DOMAIN df |-> df[i].signal = "long"])

\* build_orders_from_signals, lines 52-54: df[signal == long][prob >= MIN_PROB]
Qualifying(df) ==
  SeqFilter(df, [i \in DOMAIN df |-> df[i].signal = "long" /\ df[i].prob >= MIN_PROB])

\* lines 57-62: notional = min(MAX_POSITION_PCT * equity, ORDER_DOLLAR_STEP)
Notional(equity_usd) == Min((MAX_POSITION_PCT * equity_usd) \div 100, ORDER_DOLLAR_STEP)

\* line 66: max(1, math.floor(notional / price))
Qty(notional, price) == Max(1, notional \div price)

\* lines 60-76: the orders one iteration of the loop appends for row r at time now
build_order(r, equity_usd, now) ==
  IF Notional(equity_usd) <= 0 THEN <<>>
  ELSE << [ticker |-> r.ticker, side |-> "buy",
           qty |-> Qty(Notional(equity_usd), r.price),
           client_order_id |-> client_order_id(r.ticker, now)] >>

\* mutant: the filter of line 124 is missing
DedupNone(os, ex) == os

\* mutant: the filter goes through an unordered collection and yields the
\* surviving orders last to first
DedupReversed(os, ex) ==
  LET kept == SeqFilter(os, [i \in DOMAIN os |-> os[i].client_order_id \notin ex])
  IN [i \in DOMAIN kept |-> kept[Len(kept) + 1 - i]]

\* run_once line 124: [o for o in to_send if o["client_order_id"] not in existing]
Dedup(os, ex) ==
  SeqFilter(os, [i \in DOMAIN os |-> os[i].client_order_id \notin ex])

\* broker_alpaca.py:66-71: the input checks of submit_market_order
valid_order(o) ==
  /\ o.ticker \in STRING /\ o.ticker # ""
  /\ o.side \in {"buy", "sell"}
  /\ o.qty > 0

\* broker_alpaca.py:43-50: the clock query answers "open" or "closed", or raises
market_is_open(answer) == IF answer = "error" THEN "open" ELSE answer

\* is_open before market_is_open was called and after its value was dropped
NotChecked == [answer |-> "none", result |-> "none"]

\* run_once lines 129-134: the row written for order o by invocation r
order_row(o, r) ==
  [client_order_id |-> o.client_order_id, ticker |-> o.ticker, qty |-> o.qty,
   status |-> "sent", run |-> r]

\* sb.table("orders").update({"status": st}).eq("client_order_id", cid)
update_status(rows, cid, st) ==
  [i \in DOMAIN rows |->
     IF rows[i].client_order_id = cid THEN [rows[i] EXCEPT !.status = st] ELSE rows[i]]

\* mutant: a fill row is written for every result, failed ones too
fill_rows_always(res, r) ==
  << [client_order_id |-> res.order.client_order_id, ticker |-> res.order.ticker,
      qty |-> res.order.qty, price |-> "null", run |-> r] >>

\* run_once lines 139-150: the fill rows written for result res
fill_rows(res, r) ==
  IF res.ok
  THEN << [client_order_id |-> res.order.client_order_id, ticker |-> res.order.ticker,
           qty |-> res.order.qty, price |-> "null", run |-> r] >>
  ELSE <<>>

\* mutant: a failed submission leaves the order row as it was written
status_after_unchanged(rows, res) == rows

\* run_once lines 151-153: the orders table after result res was processed
status_after(rows, res) ==
  IF res.ok THEN rows ELSE update_status(rows, res.order.client_order_id, "rejected")

\* mutant: an insert that leaves the row of a ticker already stored
upsert_position_row_insert_only(store, ticker, qty, avg_price) ==
  [t \in DOMAIN store \cup {ticker} |->
     IF t \in DOMAIN store THEN store[t] ELSE [qty |-> qty, avg_price |-> avg_price]]

\* sb.table("positions").upsert({ticker, qty, avg_price})
upsert_position_row(store, ticker, qty, avg_price) ==
  [t \in DOMAIN store \cup {ticker} |->
     IF t = ticker THEN [qty |-> qty, avg_price |-> avg_price] ELSE store[t]]

\* the keys of the dict get_positions returns, in the order they are iterated
KeysInOrder(m) == SeqFilter(TickerOrder, [i \in DOMAIN TickerOrder |-> TickerOrder[i] \in DOMAIN m])

\* sb.table("metrics").insert({name, ts, value})
metric_row(name, value, r) == [name |-> name, value |-> value, run |-> r]

(***************************************************************************)
(* Numbers of app/risk.py.  A float is a fraction [n, d] in lowest terms,  *)
(* d >= 0; following IEEE 754, d = 0 stands for the values a division by   *)
(* zero produces: 1/0 is inf, -1/0 is -inf and 0/0 is NaN.  Arithmetic is   *)
(* exact: rounding is not modelled.                                        *)
(***************************************************************************)
Abs(x) == IF x < 0 THEN -x ELSE x
Sign(x) == IF x < 0 THEN -1 ELSE IF x > 0 THEN 1 ELSE 0

RECURSIVE GCD(_, _)
GCD(a, b) == IF b = 0 THEN a ELSE GCD(b, a % b)

Frac(n, d) ==
  IF d = 0 THEN [n |-> Sign(n), d |-> 0]
  ELSE LET g == GCD(Abs(n), Abs(d))
       IN [n |-> Sign(d) * (n \div g), d |-> Abs(d) \div g]

Zero == Frac(0, 1)
One == Frac(1, 1)
NaN == Frac(0, 0)
IsNaN(x) == x.d = 0 /\ x.n = 0
IsFinite(x) == x.d > 0

\* x * y; inf * 0 is NaN
FMul(x, y) ==
  IF x.d = 0 \/ y.d = 0 THEN Frac(x.n * y.n, x.d * y.d)
  ELSE LET g1 == GCD(Abs(x.n), y.d)
           g2 == GCD(Abs(y.n), x.d)
       IN Frac((x.n \div g1) * (y.n \div g2), (x.d \div g2) * (y.d \div g1))
\* x / y; a nonzero number over 0 is +-inf, 0 / 0 and inf / inf are NaN
FDiv(x, y) == FMul(x, Frac(IF y.n < 0 THEN -y.d ELSE y.d, Abs(y.n)))
\* x + y; inf + (-inf) is NaN
FAdd(x, y) ==
  IF IsNaN(x) \/ IsNaN(y) THEN NaN
  ELSE IF x.d = 0 /\ y.d = 0 THEN (IF x.n = y.n THEN x ELSE NaN)
  ELSE IF x.d = 0 THEN x
  ELSE IF y.d = 0 THEN y
  ELSE LET g == GCD(x.d, y.d)
       IN Frac(x.n * (y.d \div g) + y.n * (x.d \div g), (x.d \div g) * y.d)
FSub(x, y) == FAdd(x, Frac(-y.n, y.d))
FAbs(x) == Frac(Abs(x.n), x.d)
\* x < y and x <= y; every comparison with NaN is false
FLess(x, y) ==
  /\ ~IsNaN(x) /\ ~IsNaN(y)
  /\ IF x.d = 0 /\ y.d = 0 THEN x.n < y.n ELSE FSub(x, y).n < 0
FLeq(x, y) == ~IsNaN(x) /\ ~IsNaN(y) /\ (x = y \/ FLess(x, y))
\* np.maximum: NaN propagates
FMax(x, y) == IF IsNaN(x) \/ IsNaN(y) THEN NaN ELSE IF FLess(x, y) THEN y ELSE x
\* np.clip and Series.clip: NaN stays NaN
FClip(x, lo, hi) ==
  IF IsNaN(x) THEN x ELSE IF FLess(x, lo) THEN lo ELSE IF FLess(hi, x) THEN hi ELSE x

RECURSIVE SeriesSum(_, _)
\* Series.sum() over the index set S: NaN entries are skipped (skipna)
SeriesSum(w, S) ==
  IF S = {} THEN Zero
  ELSE LET i == CHOOSE j \in S : TRUE
       IN FAdd(IF IsNaN(w[i]) THEN Zero ELSE w[i], SeriesSum(w, S \ {i}))

RECURSIVE ArraySum(_, _)
\* the sum numpy takes: NaN propagates
ArraySum(w, S) ==
  IF S = {} THEN Zero
  ELSE LET i == CHOOSE j \in S : TRUE IN FAdd(w[i], ArraySum(w, S \ {i}))

\* np.average
Average(w, S) == FDiv(ArraySum(w, S), Frac(Cardinality(S), 1))

(***************************************************************************)
(* app/risk.py: size_positions_and_apply_costs.  A row of the frame is     *)
(* [ticker, prob, signal, size, atr_pct]; prob is an integer percent,      *)
(* size and atr_pct are fractions, atr_pct NaN where the value is missing. *)
(***************************************************************************)
MAX_POSITION_SIZE == Frac(15, 100)
MIN_PROBABILITY == 60
CRYPTO_CAP == Frac(5, 100)
TARGET_DAILY_VOL == Frac(1, 100)
FEE_BPS == 1
SLIP_BPS_BASE == 3
SIGNAL_THRESHOLD == 60
STRENGTH_THRESHOLD == 50

DefaultParams ==
  [crypto_cap |-> CRYPTO_CAP, target_daily_vol |-> TARGET_DAILY_VOL,
   fee_bps |-> FEE_BPS, slip_bps_base |-> SLIP_BPS_BASE]

Pct(p) == Frac(p, 100)

\* the tickers of the model that match ^[A-Z]{1,5}(\.L)?(-USD)?$
validate_ticker(t) == t \in {"AAPL", "BTC-USD", "ETH-USD", "MSFT"}
validate_probability(prob) == 0 <= prob /\ prob <= 100
validate_position_size(size) == FLeq(Zero, size) /\ FLeq(size, Frac(2, 10))

\* line 60
required_columns == {"ticker", "prob", "signal", "size"}

\* mutant: the probability check of lines 72-74 is missing
validate_signals_dataframe_no_prob(rows) ==
  /\ \A i \in DOMAIN rows : required_columns \subseteq DOMAIN rows[i]
  /\ \A i \in DOMAIN rows : validate_ticker(rows[i].ticker)
  /\ \A i \in DOMAIN rows : validate_position_size(rows[i].size)

\* lines 60-81; a frame lacks a column when its rows lack the field
validate_signals_dataframe(rows) ==
  /\ \A i \in DOMAIN rows : required_columns \subseteq DOMAIN rows[i]
  /\ \A i \in DOMAIN rows : validate_ticker(rows[i].ticker)
  /\ \A i \in DOMAIN rows : validate_probability(rows[i].prob)
  /\ \A i \in DOMAIN rows : validate_position_size(rows[i].size)

\* lines 29-32
valid_params(p) ==
  /\ FLess(Zero, p.crypto_cap) /\ FLeq(p.crypto_cap, One)
  /\ FLess(Zero, p.target_daily_vol) /\ FLeq(p.target_daily_vol, One)

\* lines 36-38
strength(r) ==
  FClip(FDiv(FSub(Pct(r.prob), Pct(STRENGTH_THRESHOLD)), Frac(2, 10)), Zero, One)
side(r) == IF r.signal = "long" THEN One ELSE Zero
desired(r) == FMul(side(r), strength(r))

\* lines 41-42
vol_est(r) == IF IsNaN(r.atr_pct) THEN Frac(2, 100) ELSE r.atr_pct
inv_vol(r) == FDiv(One, FMax(vol_est(r), Frac(1, 10000)))

\* the rows with desired > 0
DesiredRows(rows) == {i \in DOMAIN rows : FLess(Zero, desired(rows[i]))}

\* line 46
base_scale(rows, target_daily_vol) ==
  FDiv(target_daily_vol,
       IF DesiredRows(rows) # {}
       THEN Average([i \in DOMAIN rows |-> vol_est(rows[i])], DesiredRows(rows))
       ELSE Frac(2, 100))

\* lines 47-49
w_raw(rows) ==
  LET raw == [i \in DOMAIN rows |-> FMul(desired(rows[i]), inv_vol(rows[i]))]
      total == SeriesSum(raw, DesiredRows(rows))
  IN IF \E i \in DOMAIN rows : FLess(Zero, raw[i])
     THEN [i \in DOMAIN rows |-> FDiv(raw[i], total)]
     ELSE raw

\* mutant: the penalty grows with the cost and is not clipped
cost_penalty_growing(fee_bps, slip_bps_base) ==
  FAdd(One, Frac(fee_bps + slip_bps_base, 10000))

\* lines 53-54
cost_penalty(fee_bps, slip_bps_base) ==
  FClip(FSub(One, Frac(fee_bps + slip_bps_base, 10000)), Frac(9, 10), One)

\* lines 50, 55, 57: the weights before the crypto cap
weights_after_costs(rows, p) ==
  LET raw == w_raw(rows)
      scale == base_scale(rows, p.target_daily_vol)
      penalty == cost_penalty(p.fee_bps, p.slip_bps_base)
  IN [i \in DOMAIN rows |-> FMul(FMul(raw[i], scale), penalty)]

\* the tickers of the model that contain "-USD"
is_crypto(t) == t \in {"BTC-USD", "ETH-USD"}

\* Series.abs().sum() over the crypto rows
total_crypto(rows, w) ==
  SeriesSum([i \in DOMAIN rows |-> FAbs(w[i])],
            {i \in DOMAIN rows : is_crypto(rows[i].ticker)})

\* mutant: the cap step rescales every row, not only the crypto rows
crypto_cap_step_all_rows(rows, w, crypto_cap) ==
  LET total == total_crypto(rows, w)
  IN IF FLess(crypto_cap, total) /\ FLess(Zero, total)
     THEN [i \in DOMAIN rows |-> FMul(w[i], FDiv(crypto_cap, total))]
     ELSE w

\* mutant: the crypto sleeve cap of lines 60-63 is missing
crypto_cap_step_none(rows, w, crypto_cap) == w

\* lines 60-63
crypto_cap_step(rows, w, crypto_cap) ==
  LET total == total_crypto(rows, w)
  IN IF FLess(crypto_cap, total) /\ FLess(Zero, total)
     THEN [i \in DOMAIN rows |->
             IF is_crypto(rows[i].ticker)
             THEN FMul(w[i], FDiv(crypto_cap, total)) ELSE w[i]]
     ELSE w

\* lines 67-68
damp(rows, w) ==
  [i \in DOMAIN rows |->
     FMul(w[i], IF rows[i].prob < SIGNAL_THRESHOLD THEN Frac(1, 2) ELSE One)]

\* line 71
clamp(w) == [i \in DOMAIN w |-> FClip(w[i], Zero, MAX_POSITION_SIZE)]

\* lines 34-72: the frame returned for a batch that passed validation
size_positions_and_apply_costs(rows, p) ==
  LET w == clamp(damp(rows, crypto_cap_step(rows, weights_after_costs(rows, p),
                                            p.crypto_cap)))
  IN [i \in DOMAIN rows |-> [rows[i] EXCEPT !.size = w[i]]]

\* Rows a batch may hold.
RowAAPL == [ticker |-> "AAPL", prob |-> 75, signal |-> "long", size |-> Zero, atr_pct |-> Frac(2, 100)]
RowAAPLMarginal == [ticker |-> "AAPL", prob |-> 55, signal |-> "long", size |-> Zero, atr_pct |-> Frac(1, 100)]
RowAAPLBadProb == [ticker |-> "AAPL", prob |-> 120, signal |-> "long", size |-> Zero, atr_pct |-> Frac(2, 100)]
RowLowercase == [ticker |-> "aapl", prob |-> 75, signal |-> "long", size |-> Zero, atr_pct |-> Frac(2, 100)]
RowBTC == [ticker |-> "BTC-USD", prob |-> 75, signal |-> "long", size |-> Zero, atr_pct |-> Frac(4, 100)]
RowBTCZeroVol == [ticker |-> "BTC-USD", prob |-> 75, signal |-> "long", size |-> Zero, atr_pct |-> Zero]
RowETH == [ticker |-> "ETH-USD", prob |-> 55, signal |-> "long", size |-> Zero, atr_pct |-> Frac(2, 100)]
RowETHFlat == [ticker |-> "ETH-USD", prob |-> 75, signal |-> "flat", size |-> Zero, atr_pct |-> Frac(1, 100)]
RowMSFT == [ticker |-> "MSFT", prob |-> 40, signal |-> "flat", size |-> Zero, atr_pct |-> NaN]
RowMSFTLong == [ticker |-> "MSFT", prob |-> 60, signal |-> "long", size |-> Zero, atr_pct |-> Frac(4, 100)]
RowMSFTZeroVol == [ticker |-> "MSFT", prob |-> 75, signal |-> "long", size |-> Zero, atr_pct |-> Zero]
RowMSFTBadSize == [ticker |-> "MSFT", prob |-> 75, signal |-> "long", size |-> Frac(3, 10), atr_pct |-> Frac(4, 100)]
RowMSFTNoSize == [ticker |-> "MSFT", prob |-> 75, signal |-> "long", atr_pct |-> Frac(4, 100)]

\* The batches: at most one row per ticker, in ticker order.
Batches ==
  { a \o b \o e \o m :
      a \in {<<>>, <<RowAAPL>>, <<RowAAPLMarginal>>, <<RowAAPLBadProb>>, <<RowLowercase>>},
      b \in {<<>>, <<RowBTC>>, <<RowBTCZeroVol>>},
      e \in {<<>>, <<RowETH>>, <<RowETHFlat>>},
      m \in {<<>>, <<RowMSFT>>, <<RowMSFTLong>>, <<RowMSFTZeroVol>>, <<RowMSFTBadSize>>,
              <<RowMSFTNoSize>>} }

\* fee_bps: the default, a cost inside the haircut's range, a cost above
\* the 10% cap of the haircut
FeeBpsValues == {FEE_BPS, 500, 2000}

\* The tunables: the defaults, the ends of (0, 1], and a crypto cap outside
\* (0, 1].
ParamSets ==
  [crypto_cap : {Zero, CRYPTO_CAP, One}, target_daily_vol : {TARGET_DAILY_VOL, One},
   fee_bps : FeeBpsValues, slip_bps_base : {SLIP_BPS_BASE}]

(***************************************************************************)
(* app/pipeline.py: run_intraday, one step per stage of the refresh and    *)
(* per write to the store.  write_metrics and write_signals of             *)
(* app/storage.py catch every exception of the insert: a failed insert     *)
(* stores nothing and the caller goes on.                                  *)
(***************************************************************************)
\* the stages that produce a frame: panel (lines 54-66), feats (71-73),
\* latest (78-81), and the position that follows each
DataStages == {"panel", "feats", "latest"}
StageAfter(stage) ==
  IF stage = "panel" THEN "feats" ELSE IF stage = "feats" THEN "latest" ELSE "size"

\* lines 86-89: prob is a probability of the model, signal is long iff
\* prob >= SIGNAL_THRESHOLD, size is 0.0; latest is not empty
LatestBatches ==
  { b \in Batches :
      /\ b # <<>>
      /\ \A i \in DOMAIN b :
           /\ "size" \in DOMAIN b[i] /\ b[i].size = Zero
           /\ b[i].signal = (IF b[i].prob >= SIGNAL_THRESHOLD THEN "long" ELSE "flat") }

\* storage.write_metrics lines 127-140: the row is inserted, or the insert
\* fails and the exception is logged and dropped
write_metrics(name) ==
  /\ pl_emitted' = Append(pl_emitted, name)
  /\ pl_metrics' \in {pl_metrics, Append(pl_metrics, name)}

InitPipelineIdle ==
  /\ pl_pc = "idle"
  /\ pl_emitted = <<>>
  /\ pl_metrics = <<>>
  /\ sig_rows = <<>>
  /\ pl_signals = <<>>

(***************************************************************************)
(* build_orders_from_signals as a function of its two arguments.           *)
(***************************************************************************)
MAX_GROSS_LEVERAGE == 1

RECURSIVE BuildFrom(_, _, _, _)
\* the loop of lines 60-76 from row i of the filtered frame on
BuildFrom(q, i, equity, now) ==
  IF i > Len(q) THEN <<>>
  ELSE build_order(q[i], equity, now) \o BuildFrom(q, i + 1, equity, now)

\* lines 52-78, the clock read the same at every iteration
build_orders_from_signals(frame, equity, now) ==
  BuildFrom(Qualifying(frame), 1, equity, now)

\* Rows of other tickers, each long with prob 0.75 at price 50.
CheapTickers == <<"AMZN", "GOOG", "META", "NFLX", "NVDA", "ORCL", "TSLA">>
SigCheap(i) ==
  [ticker |-> CheapTickers[i], ts |-> 1, signal |-> "long", prob |-> 75, price |-> 50]

\* The frames passed as df: the rows of a pool, any of them left out.
FramePool ==
  <<SigAAPL, SigBTC, SigMSFT>> \o [i \in DOMAIN CheapTickers |-> SigCheap(i)]
BuildFrames ==
  { SeqFilter(FramePool, keep) : keep \in [DOMAIN FramePool -> BOOLEAN] }

\* The values passed as equity_usd: none, one below the lot, run_once's.
EquityValues == {0, 1000, EQUITY_USD}

InitBuildIdle ==
  /\ build_equity = EQUITY_USD
  /\ build_df = <<>>
  /\ built_orders = <<>>
  /\ build_pc = "idle"

(***************************************************************************)
(* Initial state: empty stores, one batch of signals, no invocation yet.   *)
(***************************************************************************)
InitExecutor ==
  /\ clock = 0
  /\ orders = <<>>
  /\ fills = <<>>
  /\ positions = <<>>
  /\ metrics = <<>>
  /\ broker_calls = <<>>
  /\ runs = 0
  /\ pc = [p \in Procs |-> "idle"]
  /\ run = [p \in Procs |-> 0]
  /\ sig = [p \in Procs |-> <<>>]
  /\ existing = [p \in Procs |-> {}]
  /\ to_send = [p \in Procs |-> <<>>]
  /\ results = [p \in Procs |-> <<>>]
  /\ idx = [p \in Procs |-> 1]
  /\ is_open = [p \in Procs |-> NotChecked]
  /\ pos = [p \in Procs |-> <<>>]
  /\ todo = [p \in Procs |-> <<>>]
  /\ nsync = [p \in Procs |-> 0]
  /\ error = [p \in Procs |-> "none"]

\* the sizing function is not called
InitRiskIdle ==
  /\ signals_df = <<>>
  /\ params = DefaultParams
  /\ sized_df = <<>>
  /\ risk_pc = "idle"

Init ==
  /\ InitExecutor
  /\ signals \in SignalTables
  /\ InitRiskIdle
  /\ InitPipelineIdle
  /\ InitBuildIdle

(***************************************************************************)
(* The environment: the wall clock advances.                               *)
(***************************************************************************)
Tick ==
  /\ clock < MaxClock
  /\ clock' = clock + 1
  /\ UNCHANGED <<runs, store_vars, local_vars, risk_vars, pipeline_vars, build_vars>>

(***************************************************************************)
(* run_once, one step per external call.                                   *)
(***************************************************************************)
\* a process that is not inside run_once calls it
Start(p) ==
  /\ pc[p] \in {"idle", "done", "raised"}
  /\ runs < MaxRuns
  /\ runs' = runs + 1
  /\ pc' = [pc EXCEPT ![p] = "fetch"]
  /\ run' = [run EXCEPT ![p] = runs + 1]
  /\ sig' = [sig EXCEPT ![p] = <<>>]
  /\ existing' = [existing EXCEPT ![p] = {}]
  /\ to_send' = [to_send EXCEPT ![p] = <<>>]
  /\ results' = [results EXCEPT ![p] = <<>>]
  /\ idx' = [idx EXCEPT ![p] = 1]
  /\ is_open' = [is_open EXCEPT ![p] = NotChecked]
  /\ pos' = [pos EXCEPT ![p] = <<>>]
  /\ todo' = [todo EXCEPT ![p] = <<>>]
  /\ nsync' = [nsync EXCEPT ![p] = 0]
  /\ error' = [error EXCEPT ![p] = "none"]
  /\ UNCHANGED <<risk_vars, pipeline_vars, build_vars, clock, store_vars>>

\* mutant: the sig.empty check of lines 106-108 is missing
FetchSignalsNoEmptyCheck(p) ==
  /\ pc[p] = "fetch"
  /\ sig' = [sig EXCEPT ![p] = fetch_latest_signals(signals)]
  /\ pc' = [pc EXCEPT ![p] = "existing"]
  /\ UNCHANGED <<risk_vars, pipeline_vars, build_vars, clock, runs, store_vars, run, is_open, existing, to_send, results, idx, pos, todo, nsync, error>>

\* line 105-106: sig = fetch_latest_signals(limit=300); if sig.empty
FetchSignals(p) ==
  /\ pc[p] = "fetch"
  /\ sig' = [sig EXCEPT ![p] = fetch_latest_signals(signals)]
  /\ pc' = [pc EXCEPT ![p] = IF sig'[p] = <<>> THEN "m_no_signals" ELSE "existing"]
  /\ UNCHANGED <<risk_vars, pipeline_vars, build_vars, clock, runs, store_vars, run, is_open, existing, to_send, results, idx, pos, todo, nsync, error>>

\* line 107-108: the exec_no_signals metric, then return
EmitNoSignals(p) ==
  /\ pc[p] = "m_no_signals"
  /\ metrics' = Append(metrics, metric_row("exec_no_signals", 1, run[p]))
  /\ pc' = [pc EXCEPT ![p] = "done"]
  /\ UNCHANGED <<risk_vars, pipeline_vars, build_vars, clock, runs, signals, orders, fills, positions, broker_calls, run, is_open, sig,
                 existing, to_send, results, idx, pos, todo, nsync, error>>

\* line 111: existing = get_existing_client_ids()
GetExisting(p) ==
  /\ pc[p] = "existing"
  /\ existing' = [existing EXCEPT ![p] = get_existing_client_ids(orders)]
  /\ pc' = [pc EXCEPT ![p] = "build"]
  /\ idx' = [idx EXCEPT ![p] = 1]
  /\ UNCHANGED <<risk_vars, pipeline_vars, build_vars, clock, runs, store_vars, run, is_open, sig, to_send, results, pos, todo, nsync, error>>

\* build_orders_from_signals lines 60-76: one iteration, reading the clock
BuildOrder(p) ==
  /\ pc[p] = "build"
  /\ idx[p] <= Len(Qualifying(sig[p]))
  /\ to_send' = [to_send EXCEPT ![p] =
                   @ \o build_order(Qualifying(sig[p])[idx[p]], EQUITY_USD, clock)]
  /\ idx' = [idx EXCEPT ![p] = @ + 1]
  /\ UNCHANGED <<risk_vars, pipeline_vars, build_vars, clock, runs, store_vars, pc, run, is_open, sig, existing, results, pos, todo, nsync, error>>

\* lines 78, 119, 124: build returns; no orders -> metric; else the dedup filter
BuildReturn(p) ==
  /\ pc[p] = "build"
  /\ idx[p] > Len(Qualifying(sig[p]))
  /\ IF to_send[p] = <<>>
     THEN /\ pc' = [pc EXCEPT ![p] = "m_no_orders"]
          /\ UNCHANGED to_send
     ELSE /\ to_send' = [to_send EXCEPT ![p] = Dedup(@, existing[p])]
          /\ pc' = [pc EXCEPT ![p] = IF to_send'[p] = <<>> THEN "client" ELSE "write"]
  /\ idx' = [idx EXCEPT ![p] = 1]
  /\ UNCHANGED <<risk_vars, pipeline_vars, build_vars, clock, runs, store_vars, run, is_open, sig, existing, results, pos, todo, nsync, error>>

\* line 120-121: the exec_no_orders metric, then return
EmitNoOrders(p) ==
  /\ pc[p] = "m_no_orders"
  /\ metrics' = Append(metrics, metric_row("exec_no_orders", 1, run[p]))
  /\ pc' = [pc EXCEPT ![p] = "done"]
  /\ UNCHANGED <<risk_vars, pipeline_vars, build_vars, clock, runs, signals, orders, fills, positions, broker_calls, run, is_open, sig,
                 existing, to_send, results, idx, pos, todo, nsync, error>>

\* mutant: only the first order of the batch gets its row before place_orders
WriteOrderRowFirstOnly(p) ==
  /\ pc[p] = "write"
  /\ orders' = Append(orders, order_row(to_send[p][idx[p]], run[p]))
  /\ pc' = [pc EXCEPT ![p] = "client"]
  /\ idx' = [idx EXCEPT ![p] = 1]
  /\ UNCHANGED <<risk_vars, pipeline_vars, build_vars, clock, runs, signals, fills, positions, metrics, broker_calls, run, is_open, sig,
                 existing, to_send, results, pos, todo, nsync, error>>

\* lines 128-134: write_order_row for the next order of to_send
WriteOrderRow(p) ==
  /\ pc[p] = "write"
  /\ orders' = Append(orders, order_row(to_send[p][idx[p]], run[p]))
  /\ pc' = [pc EXCEPT ![p] = IF idx[p] = Len(to_send[p]) THEN "client" ELSE "write"]
  /\ idx' = [idx EXCEPT ![p] = IF idx[p] = Len(to_send[p]) THEN 1 ELSE @ + 1]
  /\ UNCHANGED <<risk_vars, pipeline_vars, build_vars, clock, runs, signals, fills, positions, metrics, broker_calls, run, is_open, sig,
                 existing, to_send, results, pos, todo, nsync, error>>

\* get_client succeeds: in place_orders (line 81) or in sync_positions (line 98)
GetClient(p) ==
  /\ pc[p] \in {"client", "sync_client"}
  /\ pc' = [pc EXCEPT ![p] = IF @ = "client" THEN "clock" ELSE "sync_fetch"]
  /\ nsync' = [nsync EXCEPT ![p] = IF pc[p] = "sync_client" THEN @ + 1 ELSE @]
  /\ UNCHANGED <<risk_vars, pipeline_vars, build_vars, clock, runs, store_vars, run, is_open, sig, existing, to_send, results, idx, pos, todo, error>>

\* get_client raises BrokerError (broker_alpaca.py:38-41); nothing catches it
GetClientRaises(p) ==
  /\ pc[p] \in {"client", "sync_client"}
  /\ pc' = [pc EXCEPT ![p] = "raised"]
  /\ error' = [error EXCEPT ![p] = "BrokerError"]
  /\ nsync' = [nsync EXCEPT ![p] = IF pc[p] = "sync_client" THEN @ + 1 ELSE @]
  /\ UNCHANGED <<risk_vars, pipeline_vars, build_vars, clock, runs, store_vars, run, is_open, sig, existing, to_send, results, idx, pos, todo>>

\* place_orders line 82: market_is_open(api) is evaluated
MarketIsOpen(p) ==
  /\ pc[p] = "clock"
  /\ \E answer \in {"open", "closed", "error"} :
       is_open' = [is_open EXCEPT ![p] =
                     [answer |-> answer, result |-> market_is_open(answer)]]
  /\ pc' = [pc EXCEPT ![p] = "clock_checked"]
  /\ UNCHANGED <<risk_vars, pipeline_vars, build_vars, clock, runs, store_vars, run, sig, existing, to_send, results, idx,
                 pos, todo, nsync, error>>

\* mutant: a closed market raises MarketClosedError instead of "pass"
StartPlacingBlocksWhenClosed(p) ==
  /\ pc[p] = "clock_checked"
  /\ is_open' = [is_open EXCEPT ![p] = NotChecked]
  /\ results' = [results EXCEPT ![p] = <<>>]
  /\ idx' = [idx EXCEPT ![p] = 1]
  /\ IF is_open[p].result = "closed"
     THEN /\ pc' = [pc EXCEPT ![p] = "raised"]
          /\ error' = [error EXCEPT ![p] = "MarketClosedError"]
     ELSE /\ pc' = [pc EXCEPT ![p] = IF to_send[p] = <<>> THEN "sync_client" ELSE "submit"]
          /\ UNCHANGED error
  /\ UNCHANGED <<risk_vars, pipeline_vars, build_vars, clock, runs, store_vars, run, sig, existing, to_send, pos, todo, nsync>>

\* place_orders lines 82-86: "if not ...: pass", placed = [], the loop begins;
\* the value of the check is dropped
StartPlacing(p) ==
  /\ pc[p] = "clock_checked"
  /\ is_open' = [is_open EXCEPT ![p] = NotChecked]
  /\ results' = [results EXCEPT ![p] = <<>>]
  /\ idx' = [idx EXCEPT ![p] = 1]
  /\ pc' = [pc EXCEPT ![p] = IF to_send[p] = <<>> THEN "sync_client" ELSE "submit"]
  /\ UNCHANGED <<risk_vars, pipeline_vars, build_vars, clock, runs, store_vars, run, sig, existing, to_send,
                 pos, todo, nsync, error>>

\* where place_orders' loop goes after the order at idx
AfterSubmit(p) ==
  /\ pc' = [pc EXCEPT ![p] = IF idx[p] = Len(to_send[p]) THEN "fills" ELSE "submit"]
  /\ idx' = [idx EXCEPT ![p] = IF idx[p] = Len(to_send[p]) THEN 1 ELSE @ + 1]

\* place_orders lines 88-91: submit_market_order returns the broker's response
SubmitOk(p) ==
  /\ pc[p] = "submit"
  /\ LET o == to_send[p][idx[p]] IN
       /\ valid_order(o)
       /\ broker_calls' = Append(broker_calls,
            [client_order_id |-> o.client_order_id, ticker |-> o.ticker, qty |-> o.qty,
             accepted |-> TRUE, run |-> run[p]])
       /\ results' = [results EXCEPT ![p] = Append(@, [ok |-> TRUE, order |-> o])]
  /\ AfterSubmit(p)
  /\ UNCHANGED <<risk_vars, pipeline_vars, build_vars, clock, runs, signals, orders, fills, positions, metrics, run, is_open, sig,
                 existing, to_send, pos, todo, nsync, error>>

\* mutant: no try/except around the submission, the exception leaves place_orders
SubmitFailPropagates(p) ==
  /\ pc[p] = "submit"
  /\ LET o == to_send[p][idx[p]] IN
       broker_calls' = Append(broker_calls,
            [client_order_id |-> o.client_order_id, ticker |-> o.ticker,
             qty |-> o.qty, accepted |-> FALSE, run |-> run[p]])
  /\ pc' = [pc EXCEPT ![p] = "raised"]
  /\ error' = [error EXCEPT ![p] = "OrderSubmissionError"]
  /\ UNCHANGED <<risk_vars, pipeline_vars, build_vars, clock, runs, signals, orders, fills, positions, metrics, run, is_open, sig,
                 existing, to_send, results, idx, pos, todo, nsync>>

\* place_orders lines 92-93: submit_market_order raises, the loop goes on
SubmitFail(p) ==
  /\ pc[p] = "submit"
  /\ LET o == to_send[p][idx[p]] IN
       /\ broker_calls' =
            IF valid_order(o)
            THEN Append(broker_calls,
                   [client_order_id |-> o.client_order_id, ticker |-> o.ticker,
                    qty |-> o.qty, accepted |-> FALSE, run |-> run[p]])
            ELSE broker_calls
       /\ results' = [results EXCEPT ![p] = Append(@, [ok |-> FALSE, order |-> o])]
  /\ AfterSubmit(p)
  /\ UNCHANGED <<risk_vars, pipeline_vars, build_vars, clock, runs, signals, orders, fills, positions, metrics, run, is_open, sig,
                 existing, to_send, pos, todo, nsync, error>>

\* run_once lines 139-153: one result: a fill row, or the order marked rejected
ProcessResult(p) ==
  /\ pc[p] = "fills"
  /\ fills' = fills \o fill_rows(results[p][idx[p]], run[p])
  /\ orders' = status_after(orders, results[p][idx[p]])
  /\ pc' = [pc EXCEPT ![p] = IF idx[p] = Len(results[p]) THEN "sync_client" ELSE "fills"]
  /\ idx' = [idx EXCEPT ![p] = IF idx[p] = Len(results[p]) THEN 1 ELSE @ + 1]
  /\ UNCHANGED <<risk_vars, pipeline_vars, build_vars, clock, runs, signals, positions, metrics, broker_calls, run, is_open, sig,
                 existing, to_send, results, pos, todo, nsync, error>>

\* sync_positions line 99: get_positions returns the broker's mapping
GetPositions(p) ==
  /\ pc[p] = "sync_fetch"
  /\ \E m \in BrokerMappings :
       /\ pos' = [pos EXCEPT ![p] = m]
       /\ todo' = [todo EXCEPT ![p] = KeysInOrder(m)]
       /\ pc' = [pc EXCEPT ![p] = IF DOMAIN m = {} THEN "m_sent" ELSE "sync_upsert"]
  /\ UNCHANGED <<risk_vars, pipeline_vars, build_vars, clock, runs, store_vars, run, is_open, sig, existing, to_send, results, idx, nsync, error>>

\* get_positions raises PositionRetrievalError (broker_alpaca.py:59-60)
GetPositionsRaises(p) ==
  /\ pc[p] = "sync_fetch"
  /\ pc' = [pc EXCEPT ![p] = "raised"]
  /\ error' = [error EXCEPT ![p] = "PositionRetrievalError"]
  /\ UNCHANGED <<risk_vars, pipeline_vars, build_vars, clock, runs, store_vars, run, is_open, sig, existing, to_send, results, idx, pos, todo, nsync>>

\* sync_positions lines 100-101: upsert the next ticker of pos
UpsertPosition(p) ==
  /\ pc[p] = "sync_upsert"
  /\ LET t == Head(todo[p]) IN
       positions' = upsert_position_row(positions, t, pos[p][t].qty, pos[p][t].avg_price)
  /\ todo' = [todo EXCEPT ![p] = Tail(@)]
  /\ pc' = [pc EXCEPT ![p] = IF Len(todo[p]) = 1 THEN "m_sent" ELSE "sync_upsert"]
  /\ UNCHANGED <<risk_vars, pipeline_vars, build_vars, clock, runs, signals, orders, fills, metrics, broker_calls, run, is_open, sig,
                 existing, to_send, results, idx, pos, nsync, error>>

\* mutant: the metric counts the accepted submissions only
EmitOrdersSentAccepted(p) ==
  /\ pc[p] = "m_sent"
  /\ metrics' = Append(metrics, metric_row("exec_orders_sent",
                   Len(SeqFilter(results[p], [i \in DOMAIN results[p] |-> results[p][i].ok])),
                   run[p]))
  /\ pc' = [pc EXCEPT ![p] = "done"]
  /\ UNCHANGED <<risk_vars, pipeline_vars, build_vars, clock, runs, signals, orders, fills, positions, broker_calls, run, is_open, sig,
                 existing, to_send, results, idx, pos, todo, nsync, error>>

\* line 158: the exec_orders_sent metric with value len(results)
EmitOrdersSent(p) ==
  /\ pc[p] = "m_sent"
  /\ metrics' = Append(metrics, metric_row("exec_orders_sent", Len(results[p]), run[p]))
  /\ pc' = [pc EXCEPT ![p] = "done"]
  /\ UNCHANGED <<risk_vars, pipeline_vars, build_vars, clock, runs, signals, orders, fills, positions, broker_calls, run, is_open, sig,
                 existing, to_send, results, idx, pos, todo, nsync, error>>

\* the positions of run_once whose next step is a call on a Supabase table
StoreCallPcs ==
  {"fetch", "m_no_signals", "existing", "m_no_orders", "write", "fills",
   "sync_upsert", "m_sent"}

\* the Supabase call raises; run_once catches nothing, the invocation ends
StoreRaises(p) ==
  /\ pc[p] \in StoreCallPcs
  /\ pc' = [pc EXCEPT ![p] = "raised"]
  /\ error' = [error EXCEPT ![p] = "StoreError"]
  /\ UNCHANGED <<risk_vars, pipeline_vars, build_vars, clock, runs, store_vars, run, is_open, sig, existing, to_send, results, idx, pos, todo, nsync>>

\* the steps of an invocation after its call
run_once_body(p) ==
  \/ FetchSignals(p)
  \/ EmitNoSignals(p)
  \/ GetExisting(p)
  \/ BuildOrder(p)
  \/ BuildReturn(p)
  \/ EmitNoOrders(p)
  \/ WriteOrderRow(p)
  \/ GetClient(p)
  \/ GetClientRaises(p)
  \/ MarketIsOpen(p)
  \/ StartPlacing(p)
  \/ SubmitOk(p)
  \/ SubmitFail(p)
  \/ ProcessResult(p)
  \/ GetPositions(p)
  \/ GetPositionsRaises(p)
  \/ UpsertPosition(p)
  \/ EmitOrdersSent(p)
  \/ StoreRaises(p)

run_once(p) == Start(p) \/ run_once_body(p)

\* invocations that do not overlap: one process calls run_once again and again
Next == Tick \/ \E p \in SeqProcs : run_once(p)

Spec == Init /\ [][Next]_vars

\* The signal tables of the concurrent specification: no row, no qualifying
\* row, one qualifying row.
SignalTablesConc == { {}, {SigMSFT}, {SigAAPL, SigMSFT} }

InitConc == Init /\ signals \in SignalTablesConc

\* a trigger fires once: the process calls run_once and does not call it again
StartOnce(p) == pc[p] = "idle" /\ Start(p)

\* invocations from independent triggers: the steps of two processes interleave
NextConc == Tick \/ \E p \in Procs : (StartOnce(p) \/ run_once_body(p))

SpecConc == InitConc /\ [][NextConc]_vars

(***************************************************************************)
(* size_positions_and_apply_costs called once on a batch.                  *)
(***************************************************************************)
InitRisk ==
  /\ InitExecutor
  /\ signals = {}
  /\ signals_df \in Batches
  /\ params \in ParamSets
  /\ sized_df = <<>>
  /\ risk_pc = "called"
  /\ InitPipelineIdle
  /\ InitBuildIdle

\* lines 23-32: a check fails, ValidationError
SizeRaises ==
  /\ risk_pc = "called"
  /\ ~(validate_signals_dataframe(signals_df) /\ valid_params(params))
  /\ risk_pc' = "raised"
  /\ UNCHANGED <<build_vars, clock, runs, store_vars, local_vars, pipeline_vars, signals_df, params, sized_df>>

\* lines 34-72: the sized frame is returned
SizeReturns ==
  /\ risk_pc = "called"
  /\ validate_signals_dataframe(signals_df) /\ valid_params(params)
  /\ sized_df' = size_positions_and_apply_costs(signals_df, params)
  /\ risk_pc' = "returned"
  /\ UNCHANGED <<build_vars, clock, runs, store_vars, local_vars, pipeline_vars, signals_df, params>>

NextRisk == SizeRaises \/ SizeReturns

SpecRisk == InitRisk /\ [][NextRisk]_vars

(***************************************************************************)
(* The callers of size_positions_and_apply_costs: one run_intraday         *)
(* invocation, or a direct call with any batch and any tunables.           *)
(***************************************************************************)
InitPipeline ==
  /\ InitExecutor
  /\ signals = {}
  /\ InitPipelineIdle
  /\ InitBuildIdle
  /\ \/ InitRiskIdle
     \/ /\ signals_df \in Batches
        /\ params \in ParamSets
        /\ sized_df = <<>>
        /\ risk_pc = "called"

\* lines 51-52: _heartbeat("intraday_start")
HeartbeatStart ==
  /\ pl_pc = "idle" /\ risk_pc = "idle"
  /\ write_metrics("heartbeat_intraday_start")
  /\ pl_pc' = "panel"
  /\ UNCHANGED <<build_vars, clock, runs, store_vars, local_vars, risk_vars, sig_rows, pl_signals>>

\* lines 66-69, 73-76, 81-84: the frame of a stage is empty
StageEmpty(stage) ==
  /\ pl_pc = stage
  /\ write_metrics("intraday_error")
  /\ pl_pc' = "returned"
  /\ UNCHANGED <<build_vars, clock, runs, store_vars, local_vars, risk_vars, sig_rows, pl_signals>>

\* a call of a stage raises (in stage panel: after the fallback of lines 59-64)
StageRaises(stage) ==
  /\ pl_pc = stage
  /\ pl_pc' = "except"
  /\ UNCHANGED <<build_vars, clock, runs, store_vars, local_vars, risk_vars, pl_emitted, pl_metrics,
                 sig_rows, pl_signals>>

\* the stage yields rows; after latest, line 95 calls the sizing function
StageOk(stage) ==
  /\ pl_pc = stage
  /\ pl_pc' = StageAfter(stage)
  /\ IF stage = "latest"
     THEN /\ signals_df' \in LatestBatches
          /\ params' = [DefaultParams EXCEPT !.crypto_cap = Frac(5, 100)]
          /\ risk_pc' = "called"
          /\ UNCHANGED sized_df
     ELSE UNCHANGED risk_vars
  /\ UNCHANGED <<build_vars, clock, runs, store_vars, local_vars, pl_emitted, pl_metrics, sig_rows, pl_signals>>

\* line 95 raised ValidationError
SizingRaised ==
  /\ pl_pc = "size" /\ risk_pc = "raised"
  /\ pl_pc' = "except"
  /\ UNCHANGED <<build_vars, clock, runs, store_vars, local_vars, risk_vars, pl_emitted, pl_metrics,
                 sig_rows, pl_signals>>

\* lines 97-99: write_signals(sig_rows); a failed insert is dropped
WriteSignals ==
  /\ pl_pc = "size" /\ risk_pc = "returned"
  /\ sig_rows' = sized_df
  /\ pl_signals' \in {pl_signals, pl_signals \o sized_df}
  /\ pl_pc' = "runtime"
  /\ UNCHANGED <<build_vars, clock, runs, store_vars, local_vars, risk_vars, pl_emitted, pl_metrics>>

\* line 102
RuntimeMetric ==
  /\ pl_pc = "runtime"
  /\ write_metrics("intraday_runtime_s")
  /\ pl_pc' = "heartbeat_done"
  /\ UNCHANGED <<build_vars, clock, runs, store_vars, local_vars, risk_vars, sig_rows, pl_signals>>

\* line 103: _heartbeat("intraday_done"), then return
HeartbeatDone ==
  /\ pl_pc = "heartbeat_done"
  /\ write_metrics("heartbeat_intraday_done")
  /\ pl_pc' = "returned"
  /\ UNCHANGED <<build_vars, clock, runs, store_vars, local_vars, risk_vars, sig_rows, pl_signals>>

\* mutant: the except block re-raises without the intraday_error metric
ExceptHandlerNoMetric ==
  /\ pl_pc = "except"
  /\ pl_pc' = "raised"
  /\ UNCHANGED <<build_vars, clock, runs, store_vars, local_vars, risk_vars, pl_emitted, pl_metrics,
                 sig_rows, pl_signals>>

\* lines 105-108: except Exception: the intraday_error metric, then raise
ExceptHandler ==
  /\ pl_pc = "except"
  /\ write_metrics("intraday_error")
  /\ pl_pc' = "raised"
  /\ UNCHANGED <<build_vars, clock, runs, store_vars, local_vars, risk_vars, sig_rows, pl_signals>>

run_intraday ==
  \/ HeartbeatStart
  \/ \E stage \in DataStages : StageEmpty(stage)
  \/ \E stage \in DataStages : StageRaises(stage)
  \/ \E stage \in DataStages : StageOk(stage)
  \/ SizingRaised
  \/ WriteSignals
  \/ RuntimeMetric
  \/ HeartbeatDone
  \/ ExceptHandler

NextPipeline == run_intraday \/ SizeRaises \/ SizeReturns

SpecPipeline == InitPipeline /\ [][NextPipeline]_vars

(***************************************************************************)
(* build_orders_from_signals called once on a frame and an equity.         *)
(***************************************************************************)
InitBuild ==
  /\ InitExecutor
  /\ signals = {}
  /\ InitRiskIdle
  /\ InitPipelineIdle
  /\ build_equity \in EquityValues
  /\ build_df \in BuildFrames
  /\ built_orders = <<>>
  /\ build_pc = "called"

\* lines 47-78
BuildOrders ==
  /\ build_pc = "called"
  /\ built_orders' = build_orders_from_signals(build_df, build_equity, clock)
  /\ build_pc' = "returned"
  /\ UNCHANGED <<clock, runs, store_vars, local_vars, risk_vars, pipeline_vars,
                 build_equity, build_df>>

NextBuild == Tick \/ BuildOrders

SpecBuild == InitBuild /\ [][NextBuild]_vars

(***************************************************************************)
(* Vocabulary of the properties.                                           *)
(***************************************************************************)
\* positions of run_once at which to_send is the deduplicated list
FilteredPcs ==
  {"write", "client", "clock", "clock_checked", "submit", "fills", "sync_client", "sync_fetch",
   "sync_upsert", "m_sent"}

\* positions of run_once after place_orders returned
PlacedPcs == {"fills", "sync_client", "sync_fetch", "sync_upsert", "m_sent", "done"}

\* the submissions the broker received from invocation r, in order
CallsOfRun(r) == SeqFilter(broker_calls, [i \in DOMAIN broker_calls |-> broker_calls[i].run = r])

\* the broker accepted (rejected) a submission with this client_order_id
Accepted(cid) ==
  \E i \in DOMAIN broker_calls :
    broker_calls[i].client_order_id = cid /\ broker_calls[i].accepted
Refused(cid) ==
  \E i \in DOMAIN broker_calls :
    broker_calls[i].client_order_id = cid /\ ~broker_calls[i].accepted

\* number of fill rows with this client_order_id
FillCount(cid) == Cardinality({i \in DOMAIN fills : fills[i].client_order_id = cid})

\* an earlier invocation persisted an order row for every qualifying ticker of sig[p]
EarlierPersisted(p) ==
  \E r \in 1..(run[p] - 1) :
    \A i \in DOMAIN Qualifying(sig[p]) :
      \E j \in DOMAIN orders :
        orders[j].run = r /\ orders[j].ticker = Qualifying(sig[p])[i].ticker

\* the metric rows of invocation r that describe its outcome
OutcomeMetrics(r) ==
  {i \in DOMAIN metrics :
     /\ metrics[i].run = r
     /\ metrics[i].name \in {"exec_no_signals", "exec_no_orders", "exec_orders_sent"}}

(***************************************************************************)
(* C1 (idempotency of OrderBuilder + Deduplicator): once an earlier        *)
(* invocation has persisted the client_order_ids it built for the batch,   *)
(* building and filtering the same batch again, at any later wall-clock    *)
(* time, leaves no order to send.                                          *)
(***************************************************************************)
C1_SecondApplicationSendsNothing ==
  \A p \in Procs :
    (pc[p] \in FilteredPcs /\ EarlierPersisted(p)) => to_send[p] = <<>>

(***************************************************************************)
(* C2: over invocations of run_once that do not overlap, the broker never  *)
(* receives two submissions with the same client_order_id.                 *)
(***************************************************************************)
C2_BrokerNeverSameIdTwice ==
  \A i, j \in DOMAIN broker_calls :
    i # j => broker_calls[i].client_order_id # broker_calls[j].client_order_id

\* two invocations have each submitted an order for the same ticker
C2_Witness ==
  \E i, j \in DOMAIN broker_calls :
    /\ broker_calls[i].run # broker_calls[j].run
    /\ broker_calls[i].ticker = broker_calls[j].ticker

(***************************************************************************)
(* C3: the client_order_id is a function of the ticker and the decision    *)
(* cycle alone: an order built for a ticker carries the same               *)
(* client_order_id as every order row already stored for that ticker in    *)
(* this cycle, whatever the wall-clock time of the build.                  *)
(***************************************************************************)
C3_IdDeterministicPerTicker ==
  \A p \in Procs :
    \A i \in DOMAIN to_send[p] :
      \A j \in DOMAIN orders :
        orders[j].ticker = to_send[p][i].ticker
          => orders[j].client_order_id = to_send[p][i].client_order_id

(***************************************************************************)
(* C4 (per-order failure isolation): every submission of place_orders      *)
(* leaves one result record, a failed one too; once place_orders has       *)
(* returned, the results and the submissions the broker received from the  *)
(* invocation are the orders of the batch, one each and in order; and no   *)
(* invocation ends inside the batch.                                       *)
(***************************************************************************)
C4_FailureIsolation ==
  \A p \in Procs :
    /\ Len(CallsOfRun(run[p])) = Len(results[p])
    /\ \A i \in DOMAIN results[p] :
         /\ results[p][i].order = to_send[p][i]
         /\ CallsOfRun(run[p])[i].client_order_id = to_send[p][i].client_order_id
         /\ CallsOfRun(run[p])[i].accepted = results[p][i].ok
    /\ pc[p] \in PlacedPcs => Len(results[p]) = Len(to_send[p])
    /\ pc[p] = "raised" => Len(results[p]) \in {0, Len(to_send[p])}

\* place_orders returned from a batch whose first submission failed and whose
\* second was accepted
C4_Witness ==
  \E p \in Procs :
    /\ pc[p] = "fills"
    /\ Len(results[p]) = 2
    /\ ~results[p][1].ok
    /\ results[p][2].ok

(***************************************************************************)
(* C5: when an invocation has returned, each order row it wrote has        *)
(* status "sent" exactly if the broker accepted the submission and         *)
(* "rejected" exactly if the submission raised; none is "pending".         *)
(***************************************************************************)
C5_FinalStatusMatchesBroker ==
  \A p \in Procs :
    pc[p] = "done" =>
      \A j \in DOMAIN orders :
        orders[j].run = run[p] =>
          /\ orders[j].status = "sent" <=> Accepted(orders[j].client_order_id)
          /\ orders[j].status = "rejected" <=> Refused(orders[j].client_order_id)
          /\ orders[j].status # "pending"

\* an invocation returned after one accepted and one refused submission
C5_Witness ==
  \E p \in Procs :
    /\ pc[p] = "done"
    /\ \E j, k \in DOMAIN orders :
         /\ orders[j].run = run[p] /\ orders[j].status = "sent"
         /\ orders[k].run = run[p] /\ orders[k].status = "rejected"

(***************************************************************************)
(* C6: no order row has status "sent" unless the broker accepted a         *)
(* submission of that order.                                               *)
(***************************************************************************)
C6_SentOnlyAfterAccepted ==
  \A j \in DOMAIN orders :
    orders[j].status = "sent" => Accepted(orders[j].client_order_id)

(***************************************************************************)
(* C7: every fill row has price null and belongs to one accepted           *)
(* submission of the invocation that wrote it; no submission has two fill  *)
(* rows, a refused one has none; and when the invocation has returned,     *)
(* every accepted submission of it has its fill row.                       *)
(***************************************************************************)
C7_FillOnlyForSuccess ==
  /\ \A f \in DOMAIN fills :
       /\ fills[f].price = "null"
       /\ FillCount(fills[f].client_order_id) = 1
       /\ Cardinality({i \in DOMAIN broker_calls :
            /\ broker_calls[i].client_order_id = fills[f].client_order_id
            /\ broker_calls[i].run = fills[f].run
            /\ broker_calls[i].accepted}) = 1
       /\ ~Refused(fills[f].client_order_id)
  /\ \A p \in Procs :
       pc[p] = "done" =>
         \A i \in DOMAIN broker_calls :
           (broker_calls[i].run = run[p] /\ broker_calls[i].accepted)
             => FillCount(broker_calls[i].client_order_id) = 1

\* an invocation returned after an accepted submission, which has a fill row,
\* and a refused one
C7_Witness ==
  \E p \in Procs :
    /\ pc[p] = "done"
    /\ \E f \in DOMAIN fills : fills[f].run = run[p]
    /\ \E i \in DOMAIN broker_calls :
         broker_calls[i].run = run[p] /\ ~broker_calls[i].accepted

(***************************************************************************)
(* C8: sync_positions is called once per invocation that reaches it, and   *)
(* only after place_orders returned and every result was processed (fill   *)
(* row written, refused order marked rejected); when it has completed,     *)
(* every ticker the broker reported holds the broker's quantity and        *)
(* average price in the positions table.                                   *)
(***************************************************************************)
C8_ReconcileAfterBatch ==
  \A p \in Procs :
    /\ nsync[p] <= 1
    /\ (pc[p] = "sync_client" \/ nsync[p] = 1) =>
         /\ Len(results[p]) = Len(to_send[p])
         /\ \A i \in DOMAIN results[p] :
              IF results[p][i].ok
              THEN FillCount(results[p][i].order.client_order_id) = 1
              ELSE \A j \in DOMAIN orders :
                     orders[j].client_order_id = results[p][i].order.client_order_id
                       => orders[j].status = "rejected"
    /\ pc[p] = "m_sent" =>
         /\ nsync[p] = 1
         /\ \A t \in DOMAIN pos[p] :
              t \in DOMAIN positions /\ positions[t] = pos[p][t]

\* sync_positions completed after a batch with an accepted and a refused
\* submission, and replaced the AAPL row an earlier invocation had stored
\* together with a BTC-USD row
C8_Witness ==
  \E p \in Procs :
    /\ pc[p] = "m_sent"
    /\ DOMAIN pos[p] = {"AAPL"}
    /\ "BTC-USD" \in DOMAIN positions
    /\ \E i, k \in DOMAIN results[p] : results[p][i].ok /\ ~results[p][k].ok

(***************************************************************************)
(* C9 (full resync): when sync_positions has completed, the positions      *)
(* table equals the mapping the broker reported: the same tickers, each    *)
(* with the broker's quantity and average price.                           *)
(***************************************************************************)
C9_FullResync ==
  \A p \in Procs :
    pc[p] = "m_sent" =>
      /\ DOMAIN positions = DOMAIN pos[p]
      /\ \A t \in DOMAIN pos[p] : positions[t] = pos[p][t]

(***************************************************************************)
(* C10: every invocation that has ended, by returning or by raising, has   *)
(* inserted exactly one of the metrics exec_no_signals, exec_no_orders,    *)
(* exec_orders_sent.                                                       *)
(***************************************************************************)
C10_EveryRunEmitsOutcomeMetric ==
  \A p \in Procs :
    pc[p] \in {"done", "raised"} => Cardinality(OutcomeMetrics(run[p])) = 1

\* sig holds rows, none of them with signal long and prob >= MIN_PROB
NoQualifyingRow(df) ==
  /\ df # <<>>
  /\ \A i \in DOMAIN df : ~(df[i].signal = "long" /\ df[i].prob >= MIN_PROB)

\* invocation r has written no order or fill row and reached the broker's
\* submit call with nothing
NoRowsNoSubmission(r) ==
  /\ \A j \in DOMAIN orders : orders[j].run # r
  /\ \A f \in DOMAIN fills : fills[f].run # r
  /\ \A i \in DOMAIN broker_calls : broker_calls[i].run # r

\* the names of the metric rows of invocation r, in insertion order
MetricNames(r) ==
  LET rows == SeqFilter(metrics, [i \in DOMAIN metrics |-> metrics[i].run = r])
  IN [i \in DOMAIN rows |-> rows[i].name]

(***************************************************************************)
(* C11 (empty batch): an invocation that fetched signals none of which is  *)
(* long with prob >= MIN_PROB builds no order, never reaches a broker call *)
(* (client construction, market check, submission, position fetch),        *)
(* writes no order or fill row, and when it returns has inserted the       *)
(* exec_no_orders metric and no other.                                     *)
(***************************************************************************)
C11_EmptyBatchNoBrokerCall ==
  \A p \in Procs :
    (pc[p] \notin {"idle", "fetch"} /\ NoQualifyingRow(sig[p])) =>
      /\ to_send[p] = <<>>
      /\ results[p] = <<>>
      /\ pc[p] \in {"existing", "build", "m_no_orders", "done", "raised"}
      /\ nsync[p] = 0
      /\ NoRowsNoSubmission(run[p])
      /\ pc[p] = "done" => MetricNames(run[p]) = <<"exec_no_orders">>
      /\ pc[p] = "raised" => error[p] = "StoreError"

\* an invocation returned from a batch whose only row has prob below MIN_PROB
C11_Witness ==
  \E p \in Procs :
    /\ pc[p] = "done"
    /\ NoQualifyingRow(sig[p])
    /\ \E i \in DOMAIN sig[p] : sig[p][i].signal = "long"
    /\ MetricNames(run[p]) = <<"exec_no_orders">>

(***************************************************************************)
(* C12: when the signals table holds no row, an invocation goes from the   *)
(* fetch to the exec_no_signals metric and returns: it does not read the   *)
(* existing client_order_ids, reaches no broker call and no table holds an *)
(* order, fill or position row; it ends by raising only if the fetch or    *)
(* the metric insert itself raises.                                        *)
(***************************************************************************)
C12_NoSignalsCleanExit ==
  \A p \in Procs :
    (signals = {} /\ pc[p] # "idle") =>
      /\ pc[p] \in {"fetch", "m_no_signals", "done", "raised"}
      /\ sig[p] = <<>> /\ to_send[p] = <<>> /\ results[p] = <<>>
      /\ nsync[p] = 0
      /\ orders = <<>> /\ fills = <<>> /\ broker_calls = <<>>
      /\ DOMAIN positions = {}
      /\ pc[p] = "done" => MetricNames(run[p]) = <<"exec_no_signals">>
      /\ pc[p] = "raised" => error[p] = "StoreError"

\* a second invocation returned from the empty signals table
C12_Witness ==
  \E p \in Procs :
    /\ signals = {}
    /\ pc[p] = "done"
    /\ run[p] = 2
    /\ MetricNames(run[p]) = <<"exec_no_signals">>

RECURSIVE IsSubseq(_, _)
\* a is b with some elements removed, the others in b's order
IsSubseq(a, b) ==
  IF a = <<>> THEN TRUE
  ELSE IF b = <<>> THEN FALSE
  ELSE IF Head(a) = Head(b) THEN IsSubseq(Tail(a), Tail(b))
  ELSE IsSubseq(a, Tail(b))

\* a is the beginning of b
IsPrefix(a, b) == Len(a) <= Len(b) /\ \A i \in DOMAIN a : a[i] = b[i]

\* the order rows invocation r inserted, in insertion order
RowsOfRun(r) == SeqFilter(orders, [i \in DOMAIN orders |-> orders[i].run = r])

\* the client_order_ids (tickers) of a sequence of orders, rows, calls
IdsOf(s) == [i \in DOMAIN s |-> s[i].client_order_id]
TickersOf(s) == [i \in DOMAIN s |-> s[i].ticker]

(***************************************************************************)
(* C14: within an invocation the orders keep the order of the qualifying   *)
(* signals: to_send, before and after the dedup filter, is the qualifying  *)
(* rows' tickers with some removed and none moved, and the order rows      *)
(* written, the submissions the broker received and the result records     *)
(* each follow to_send from its first element on.                          *)
(***************************************************************************)
C14_SubmissionOrder ==
  \A p \in Procs :
    /\ IsSubseq(TickersOf(to_send[p]), TickersOf(Qualifying(sig[p])))
    /\ IsPrefix(IdsOf(RowsOfRun(run[p])), IdsOf(to_send[p]))
    /\ IsPrefix(IdsOf(CallsOfRun(run[p])), IdsOf(to_send[p]))
    /\ IsPrefix([i \in DOMAIN results[p] |-> results[p][i].order], to_send[p])

\* an invocation returned after it wrote two order rows and submitted both
C14_Witness ==
  \E p \in Procs :
    /\ pc[p] = "done"
    /\ Len(RowsOfRun(run[p])) = 2
    /\ Len(CallsOfRun(run[p])) = 2
    /\ Len(results[p]) = 2

(***************************************************************************)
(* C15 (no protection against concurrent invocations): the dedup filter    *)
(* only removes the ids that were in the orders table when the invocation  *)
(* read it (line 111), and one invocation never submits an id twice; so    *)
(* the broker receives an id twice exactly from two invocations that each  *)
(* read the table before the other's row was in it.  C15_Witness is that   *)
(* state, reached under SpecConc.                                          *)
(***************************************************************************)
C15_DedupOnlyAgainstSnapshot ==
  /\ \A p \in Procs :
       pc[p] \in FilteredPcs \cup {"done", "raised"} =>
         \A i \in DOMAIN to_send[p] : to_send[p][i].client_order_id \notin existing[p]
  /\ \A i, j \in DOMAIN broker_calls :
       (i # j /\ broker_calls[i].client_order_id = broker_calls[j].client_order_id) =>
         /\ broker_calls[i].run # broker_calls[j].run
         /\ \A p \in Procs :
              run[p] \in {broker_calls[i].run, broker_calls[j].run} =>
                broker_calls[i].client_order_id \notin existing[p]

\* both invocations read an empty orders table, both kept the order for the
\* same ticker, and the broker has received the same client_order_id from each
C15_Witness ==
  /\ \A p \in Procs : pc[p] \notin {"idle", "fetch", "existing"} /\ existing[p] = {}
  /\ \E i, j \in DOMAIN broker_calls :
       /\ broker_calls[i].run # broker_calls[j].run
       /\ broker_calls[i].ticker = broker_calls[j].ticker
       /\ broker_calls[i].client_order_id = broker_calls[j].client_order_id

(***************************************************************************)
(* C16: an invocation that get_client ended with BrokerError has submitted *)
(* no order and has written no order row, no fill row and no position row. *)
(***************************************************************************)
C16_ClientFailureLeavesNothing ==
  \A p \in Procs :
    (pc[p] = "raised" /\ error[p] = "BrokerError") =>
      /\ NoRowsNoSubmission(run[p])
      /\ pos[p] = <<>> /\ todo[p] = <<>>

Sizes(rows) == [i \in DOMAIN rows |-> rows[i].size]

(***************************************************************************)
(* C18 (weights bounded): every weight of a frame returned by              *)
(* size_positions_and_apply_costs satisfies 0 <= weight <=                 *)
(* MAX_POSITION_SIZE.                                                      *)
(***************************************************************************)
C18_WeightsWithinBounds ==
  risk_pc = "returned" =>
    \A i \in DOMAIN sized_df :
      FLeq(Zero, sized_df[i].size) /\ FLeq(sized_df[i].size, MAX_POSITION_SIZE)

(***************************************************************************)
(* C19 (no exposure without conviction): a row whose signal is not long    *)
(* or whose prob is below MIN_PROBABILITY is returned with weight          *)
(* exactly 0.                                                              *)
(***************************************************************************)
C19_NotLongOrLowProbGetsZero ==
  risk_pc = "returned" =>
    \A i \in DOMAIN sized_df :
      (sized_df[i].signal # "long" \/ sized_df[i].prob < MIN_PROBABILITY) =>
        sized_df[i].size = Zero

SizesWithFee(fee) ==
  Sizes(size_positions_and_apply_costs(signals_df, [params EXCEPT !.fee_bps = fee]))

(***************************************************************************)
(* C21 (monotonic cost sensitivity): for the batch and the other tunables  *)
(* of a returned call, a call with a higher fee_bps + slip_bps_base        *)
(* returns no weight greater than the one returned; the penalty factor     *)
(* lies in [0.9, 1.0].                                                     *)
(***************************************************************************)
C21_HigherCostNeverRaisesWeight ==
  risk_pc = "returned" =>
    /\ \A fee \in FeeBpsValues :
         fee >= params.fee_bps =>
           \A i \in DOMAIN sized_df : ~FLess(sized_df[i].size, SizesWithFee(fee)[i])
    /\ FLeq(Frac(9, 10), cost_penalty(params.fee_bps, params.slip_bps_base))
    /\ FLeq(cost_penalty(params.fee_bps, params.slip_bps_base), One)

\* a higher cost lowers a returned weight, and the highest cost meets the
\* 10% cap of the haircut
C21_Witness ==
  /\ risk_pc = "returned"
  /\ \E fee \in FeeBpsValues :
       /\ fee > params.fee_bps
       /\ \E i \in DOMAIN sized_df : FLess(SizesWithFee(fee)[i], sized_df[i].size)
  /\ cost_penalty(2000, params.slip_bps_base) = Frac(9, 10)

\* the weights of the batch of the state before and after the cap step, and
\* the sum S the step computes
PreCap == weights_after_costs(signals_df, params)
PostCap == crypto_cap_step(signals_df, PreCap, params.crypto_cap)
PreCapSum == total_crypto(signals_df, PreCap)

InvalidInput ==
  \/ \E i \in DOMAIN signals_df :
       \/ ~(required_columns \subseteq DOMAIN signals_df[i])
       \/ ~validate_ticker(signals_df[i].ticker)
       \/ signals_df[i].prob < 0 \/ signals_df[i].prob > 100
       \/ FLess(signals_df[i].size, Zero) \/ FLess(Frac(2, 10), signals_df[i].size)
  \/ ~FLess(Zero, params.crypto_cap) \/ FLess(One, params.crypto_cap)
  \/ ~FLess(Zero, params.target_daily_vol) \/ FLess(One, params.target_daily_vol)

(***************************************************************************)
(* C23 (validation is fail-fast and whole-batch): a call of                *)
(* size_positions_and_apply_costs whose batch has a row with a missing     *)
(* required column, an invalid ticker, a prob outside [0,1] or a size      *)
(* outside [0,0.2], or whose crypto_cap or target_daily_vol is outside     *)
(* (0,1], never returns a frame, and the run_intraday that made the call   *)
(* hands no row to write_signals and stores none; no step of a call        *)
(* changes the caller's batch.                                             *)
(***************************************************************************)
C23_InvalidInputRaisesWholeBatch ==
  /\ []((risk_pc # "idle" /\ InvalidInput) =>
          /\ risk_pc # "returned"
          /\ sized_df = <<>>
          /\ sig_rows = <<>>
          /\ pl_signals = <<>>)
  /\ [][risk_pc # "idle" => signals_df' = signals_df]_vars

\* run_intraday passed a batch that fails validation, the call raised and
\* the invocation ended by re-raising, with no signal row stored
C23_Witness ==
  /\ InvalidInput
  /\ risk_pc = "raised"
  /\ pl_pc = "raised"
  /\ pl_signals = <<>>

\* how often run_intraday passed the metric to write_metrics
Emitted(name) == Cardinality({i \in DOMAIN pl_emitted : pl_emitted[i] = name})

(***************************************************************************)
(* C28 (one outcome per intraday run): a run_intraday invocation that      *)
(* passed heartbeat_intraday_start to write_metrics has, when it ends,     *)
(* passed exactly one of heartbeat_intraday_done and intraday_error, and   *)
(* at no time both; heartbeat_intraday_done only after the sized rows      *)
(* were handed to write_signals; an invocation that ends by raising has    *)
(* passed intraday_error.  The metrics table receives nothing that was     *)
(* not passed.                                                             *)
(***************************************************************************)
C28_ExactlyOneIntradayOutcome ==
  Emitted("heartbeat_intraday_start") > 0 =>
    /\ Emitted("heartbeat_intraday_done") + Emitted("intraday_error") <= 1
    /\ pl_pc \in {"returned", "raised"} =>
         Emitted("heartbeat_intraday_done") + Emitted("intraday_error") = 1
    /\ Emitted("heartbeat_intraday_done") = 1 =>
         /\ sig_rows # <<>> /\ sig_rows = sized_df
         /\ pl_pc = "returned"
    /\ pl_pc = "raised" => Emitted("intraday_error") = 1
    /\ IsSubseq(pl_metrics, pl_emitted)

\* an invocation returned after handing the sized rows to write_signals and
\* emitting heartbeat_intraday_done
C28_Witness ==
  /\ pl_pc = "returned"
  /\ Emitted("heartbeat_intraday_done") = 1
  /\ sig_rows # <<>>
  /\ Emitted("intraday_error") = 0

\* the positions of the returned list that hold an order for ticker t
BuiltFor(t) == {j \in DOMAIN built_orders : built_orders[j].ticker = t}

\* the price of the row of the frame the order o was built from
PriceOf(o) ==
  (CHOOSE r \in {build_df[i] : i \in DOMAIN build_df} : r.ticker = o.ticker).price

(***************************************************************************)
(* C24 (order quantity rule): with notional = min(MAX_POSITION_PCT *       *)
(* equity, ORDER_DOLLAR_STEP), a qualifying row gets one order with        *)
(* qty = floor(notional / price) when notional / price >= 1 and no order   *)
(* when notional <= 0 or notional / price < 1; every built order has       *)
(* qty >= 1 and side buy.                                                  *)
(***************************************************************************)
C24_QuantityRule ==
  build_pc = "returned" =>
    LET q == Qualifying(build_df)
        notional == Notional(build_equity)
    IN /\ \A j \in DOMAIN built_orders :
            built_orders[j].side = "buy" /\ built_orders[j].qty >= 1
       /\ \A i \in DOMAIN q :
            IF notional <= 0 \/ notional < q[i].price
            THEN BuiltFor(q[i].ticker) = {}
            ELSE /\ Cardinality(BuiltFor(q[i].ticker)) = 1
                 /\ \A j \in BuiltFor(q[i].ticker) :
                      built_orders[j].qty = notional \div q[i].price

RECURSIVE GrossValue(_)
\* the sum over the orders of qty * price
GrossValue(os) ==
  IF os = <<>> THEN 0 ELSE Head(os).qty * PriceOf(Head(os)) + GrossValue(Tail(os))

(***************************************************************************)
(* C25 (leverage and per-name caps): the orders build_orders_from_signals  *)
(* returns are worth at most MAX_GROSS_LEVERAGE * equity in total, and     *)
(* each of them at most MAX_POSITION_PCT * equity.                         *)
(***************************************************************************)
C25_CapsEnforced ==
  build_pc = "returned" =>
    /\ GrossValue(built_orders) <= MAX_GROSS_LEVERAGE * build_equity
    /\ \A j \in DOMAIN built_orders :
         built_orders[j].qty * PriceOf(built_orders[j]) * 100
           <= MAX_POSITION_PCT * build_equity

\* positions of run_once from the call of place_orders on
AfterWritePcs == {"client", "clock", "clock_checked", "submit"} \cup PlacedPcs

(***************************************************************************)
(* C26 (write-ahead ordering): from the call of place_orders on, the       *)
(* orders table holds a row of the invocation for every order of the       *)
(* batch, in batch order; every submission the broker received has a row   *)
(* of its invocation with its client_order_id (rows are never removed, so  *)
(* the row was there at the submit call); and an invocation that ended on  *)
(* a store error with fewer rows than orders has submitted nothing.        *)
(***************************************************************************)
C26_RowsBeforeSubmission ==
  /\ \A p \in Procs :
       pc[p] \in AfterWritePcs => IdsOf(RowsOfRun(run[p])) = IdsOf(to_send[p])
  /\ \A i \in DOMAIN broker_calls :
       \E j \in DOMAIN orders :
         /\ orders[j].client_order_id = broker_calls[i].client_order_id
         /\ orders[j].run = broker_calls[i].run
  /\ \A p \in Procs :
       (pc[p] = "raised" /\ Len(RowsOfRun(run[p])) < Len(to_send[p])) =>
         /\ error[p] = "StoreError"
         /\ CallsOfRun(run[p]) = <<>>

\* the broker received the first of two orders of a batch, both rows written
C26_Witness ==
  \E p \in Procs :
    /\ pc[p] = "submit"
    /\ Len(to_send[p]) = 2
    /\ Len(CallsOfRun(run[p])) = 1
    /\ Len(RowsOfRun(run[p])) = 2

\* the exec_orders_sent rows of the metrics table
SentMetrics == {i \in DOMAIN metrics : metrics[i].name = "exec_orders_sent"}

(***************************************************************************)
(* C27 (value of exec_orders_sent): the metric's value is the number of    *)
(* orders of the invocation that survived the dedup filter, each of which  *)
(* has an order row and one result, accepted or rejected; and an           *)
(* invocation that built orders all of which the filter removed still      *)
(* goes through get_client and sync_positions and returns with             *)
(* exec_orders_sent = 0 as its only metric, not exec_no_orders.            *)
(***************************************************************************)
C27_OrdersSentCountsAttempts ==
  /\ \A i \in SentMetrics : metrics[i].value = Len(RowsOfRun(metrics[i].run))
  /\ \A p \in Procs :
       pc[p] = "done" /\ MetricNames(run[p]) = <<"exec_orders_sent">> =>
         /\ Len(results[p]) = Len(to_send[p])
         /\ \E i \in SentMetrics :
              metrics[i].run = run[p] /\ metrics[i].value = Len(to_send[p])
  /\ \A p \in Procs :
       (pc[p] = "done" /\ Qualifying(sig[p]) # <<>> /\ to_send[p] = <<>>) =>
         /\ MetricNames(run[p]) = <<"exec_orders_sent">>
         /\ \A i \in SentMetrics : metrics[i].run = run[p] => metrics[i].value = 0
         /\ nsync[p] = 1
         /\ CallsOfRun(run[p]) = <<>>

\* an invocation whose orders were all removed by the filter returned with
\* exec_orders_sent = 0, and an earlier one emitted a value above the number
\* of submissions the broker accepted
C27_Witness ==
  /\ \E p \in Procs :
       /\ pc[p] = "done" /\ Qualifying(sig[p]) # <<>> /\ to_send[p] = <<>>
       /\ MetricNames(run[p]) = <<"exec_orders_sent">>
  /\ \E i \in SentMetrics :
       metrics[i].value >
         Cardinality({j \in DOMAIN broker_calls :
                        broker_calls[j].run = metrics[i].run /\ broker_calls[j].accepted})

====
